---- MODULE Spec2Model ----
(***************************************************************************)
(* Model of the CLM automation system's document registry                  *)
(* (document_processor.py), similarity index (similarity_detector.py) and  *)
(* daily contract agent (daily_agent.py), workflow engine                  *)
(* (mcp_integration.py) and MCP server (mcp_server.py).                    *)
(*                                                                         *)
(* Abstractions:                                                           *)
(*  - a file is (path, mtime, content); the content is one of a few short  *)
(*    texts; the zero-length text is "" and "the" holds stop words only;   *)
(*  - md5(path_mtime_size)[:16] is modelled by the triple itself;          *)
(*  - TfidfVectorizer features are the unigrams and bigrams of the cleaned *)
(*    text, a row of the matrix is the tuple of its three column weights;  *)
(*    weights are tf * idf with idf = ln((1+n)/(1+df)) + 1 scaled by 10    *)
(*    and rounded, so every comparison is exact integer arithmetic;        *)
(*  - a cosine similarity is carried as floor(1000 * cos^2) (cos >= 0);    *)
(*    a threshold is given in tenths.                                      *)
(***************************************************************************)
EXTENDS Integers, Sequences, FiniteSets, TLC

\* ---------------------------------------------------------------- bounds
NumPaths == 3
MaxWrites == 2
MaxResults == 2
MaxClusters == 1
MaxDays == 60
MaxAgentDocs == 2
TicksPerDay == 2
MaxExecutions == 2

\* ------------------------------------------------------------- constants
None == "None"
\* document_vectors = None: fit_transform never returns a matrix of zero rows
NoVectors == <<>>
\* _find_document_index = None: positions are counted from 1
NoIndex == 0
Paths == 1..NumPaths
Contents == {"", "the", "Alpha", "beta", "alpha beta"}
LoadableContents == Contents \ {""}
QueryTexts == {"the", "Alpha", "alpha beta"}
\* vectorizer.vocabulary_: the column of each feature, in sorted order
Features == <<"alpha", "alpha beta", "beta">>
Thresholds == {0, 5}
NResults == (-1)..MaxResults
NClusters == 1..MaxClusters
NoFile == [mtime |-> 0, content |-> ""]
UnknownId == <<0, 0, 0>>
\* config.EXPIRATION_ALERT_DAYS
EXPIRATION_ALERT_DAYS == 30
\* the days from the model's day 0 to datetime.max (9999-12-31)
DaysToDatetimeMax == 2900000
\* _extract_expiration_date = None: no datetime of the model is this early
NoDate == -100000
\* a date string: the format it is written in and the day it names
NoDateText == [format |-> "", day |-> 0]

VARIABLES
    fs,                 \* the documents directory: path -> file or NoFile
    clock,              \* file system time, source of st_mtime
    document_registry,  \* DocumentProcessor.document_registry, insertion order
    vector_db,          \* ids of the documents whose chunks were indexed
    document_vectors,   \* DocumentSimilarityDetector.document_vectors
    document_texts,     \* DocumentSimilarityDetector.document_texts
    document_metadata,  \* DocumentSimilarityDetector.document_metadata
    vectorizer,         \* idf weights fitted in self.vectorizer
    request,            \* n_results and similarity_threshold the caller passes
    last,               \* the most recent call: [op, args, result, built]
    days,               \* argument of _get_urgency_level
    urgency,            \* value returned by _get_urgency_level
    workflows,          \* CLMWorkflowEngine.workflows: id -> steps
    running_workflows,  \* CLMWorkflowEngine.running_workflows: id -> execution
    executions,         \* the execute_workflow coroutines, one per caller
    registered,         \* the ids register_workflow has been called for
    clm_system,         \* CLMMCPServer.clm_system
    expiration_alert_days,  \* DailyContractAgent.expiration_alert_days
    pending             \* the call_tool coroutine awaiting the executor

vars == <<fs, clock, document_registry, vector_db, document_vectors,
          document_texts, document_metadata, vectorizer, request, last, days, urgency,
          workflows, running_workflows, executions, registered,
          clm_system, expiration_alert_days, pending>>

procVars == <<fs, clock, document_registry, vector_db>>
indexVars == <<document_vectors, document_texts, document_metadata, vectorizer>>
urgVars == <<days, urgency>>
engineVars == <<workflows, running_workflows, executions, registered>>
serverVars == <<clm_system, expiration_alert_days, pending>>
mcpVars == <<engineVars, serverVars>>

\* ------------------------------------------------------ generic helpers
Range(s) == {s[i] : i \in 1..Len(s)}

\* Python's lst[:n], negative n counted from the end
PySliceTo(s, n) ==
    LET m == IF n >= 0 THEN (IF n < Len(s) THEN n ELSE Len(s))
             ELSE (IF Len(s) + n > 0 THEN Len(s) + n ELSE 0)
    IN  SubSeq(s, 1, m)

\* -------------------------------------------------- document_processor
SizeOf(c) ==
    CASE c = "" -> 0
      [] c = "the" -> 3
      [] c = "Alpha" -> 5
      [] c = "beta" -> 4
      [] c = "alpha beta" -> 10

generate_doc_id(p) == <<p, fs[p].mtime, SizeOf(fs[p].content)>>

\* _load_single_document returns None when no content could be extracted
Loadable(p) == fs[p].content # ""

\* _load_single_document of a file with content
load_single_document(p) ==
    [id |-> generate_doc_id(p),
     content |-> fs[p].content,
     metadata |-> [doc_id |-> generate_doc_id(p), file_name |-> p]]

\* self.document_registry[doc['id']] = doc on an insertion-ordered dict
RegistryPut(reg, doc) ==
    IF \E i \in 1..Len(reg) : reg[i].id = doc.id
    THEN [i \in 1..Len(reg) |-> IF reg[i].id = doc.id THEN doc ELSE reg[i]]
    ELSE Append(reg, doc)

RECURSIVE LoadInto(_, _, _)
\* the loop of load_documents over the files in walk order
LoadInto(order, i, acc) ==
    IF i > Len(order) THEN acc
    ELSE IF ~Loadable(order[i]) THEN LoadInto(order, i + 1, acc)
         ELSE LET doc == load_single_document(order[i])
              IN  LoadInto(order, i + 1,
                           [documents |-> Append(acc.documents, doc),
                            registry |-> RegistryPut(acc.registry, doc)])

\* os.walk lists the files of the directory; taken in the order of the paths
WalkOrder == SelectSeq([i \in 1..NumPaths |-> i], LAMBDA p : fs[p] # NoFile)

load_documents ==
    LoadInto(WalkOrder, 1, [documents |-> <<>>, registry |-> document_registry])

get_all_documents == document_registry

\* the keys of a registry
RegistryIdsOf(reg) == {reg[i].id : i \in 1..Len(reg)}

\* ------------------------------------------------- similarity_detector
\* _clean_text: whitespace collapse, character filter, lower-casing
clean_text(text) ==
    CASE text = "Alpha" -> "alpha"
      [] OTHER -> text

\* unigrams and bigrams kept by TfidfVectorizer(stop_words='english', ngram_range=(1, 2))
FeaturesOf(text) ==
    CASE text = "alpha" -> {"alpha"}
      [] text = "Alpha" -> {"alpha"}
      [] text = "beta" -> {"beta"}
      [] text = "alpha beta" -> {"alpha", "beta", "alpha beta"}
      [] OTHER -> {}

\* round(10 * (ln((1 + n) / (1 + df)) + 1)), row n, column df
IdfTable ==
    << <<10>>,
       <<14, 10>>,
       <<17, 13, 10>>,
       <<19, 15, 12, 10>>,
       <<21, 17, 14, 12, 10>>,
       <<23, 18, 16, 13, 12, 10>> >>

DocFreq(texts, f) == Cardinality({i \in 1..Len(texts) : f \in FeaturesOf(texts[i])})

Vocabulary(texts) == {f \in Range(Features) : DocFreq(texts, f) > 0}

\* self.vectorizer before any fit: no vocabulary
Unfitted == <<0, 0, 0>>

\* the idf weight learnt for column k; 0 for a feature outside the vocabulary
Idf(texts, k) ==
    LET df == DocFreq(texts, Features[k])
    IN  IF df > 0 THEN IdfTable[Len(texts)][df] ELSE 0

\* the idf weights learnt by fit
FitIdf(texts) == <<Idf(texts, 1), Idf(texts, 2), Idf(texts, 3)>>

Weight(idf, text, k) == IF Features[k] \in FeaturesOf(text) THEN idf[k] ELSE 0

\* vectorizer.transform of one text under fitted weights
Transform(idf, text) == <<Weight(idf, text, 1), Weight(idf, text, 2), Weight(idf, text, 3)>>

Dot(a, b) == a[1] * b[1] + a[2] * b[2] + a[3] * b[3]

\* sklearn cosine_similarity of two rows: 0 when either is the zero vector
cosine_similarity(a, b) ==
    LET ab == Dot(a, b)
        aa == Dot(a, a)
        bb == Dot(b, b)
    IN  IF aa = 0 \/ bb = 0 THEN 0 ELSE (ab * ab * 1000) \div (aa * bb)

\* similarity >= similarity_threshold
Meets(score, threshold) == score >= threshold * threshold * 10

CurrentIndex ==
    [ok |-> TRUE, vectors |-> document_vectors, texts |-> document_texts,
     metadata |-> document_metadata, idf |-> vectorizer]

RECURSIVE CleanTexts(_, _, _)
\* [self._clean_text(doc['content']) for doc in all_docs]
CleanTexts(all_docs, i, texts) ==
    IF i > Len(all_docs) THEN texts
    ELSE CleanTexts(all_docs, i + 1, Append(texts, clean_text(all_docs[i].content)))

RECURSIVE Metadatas(_, _, _)
\* [doc['metadata'] for doc in all_docs]
Metadatas(all_docs, i, metas) ==
    IF i > Len(all_docs) THEN metas
    ELSE Metadatas(all_docs, i + 1, Append(metas, all_docs[i].metadata))

RECURSIVE TransformAll(_, _, _, _)
\* the rows of fit_transform(self.document_texts)
TransformAll(idf, texts, i, rows) ==
    IF i > Len(texts) THEN rows
    ELSE TransformAll(idf, texts, i + 1, Append(rows, Transform(idf, texts[i])))

\* variant: a corpus without vocabulary is vectorized to zero rows, no error
BuiltIndex_ZeroVectors ==
    LET all_docs == get_all_documents
        texts == CleanTexts(all_docs, 1, <<>>)
        metas == Metadatas(all_docs, 1, <<>>)
        idf == FitIdf(texts)
    IN  IF all_docs = <<>>
        THEN [CurrentIndex EXCEPT !.ok = FALSE]
        ELSE [ok |-> TRUE, vectors |-> TransformAll(idf, texts, 1, <<>>),
              texts |-> texts, metadata |-> metas, idf |-> idf]

\* build_similarity_index: the values of the four fields when it returns
BuiltIndex ==
    LET all_docs == get_all_documents
        texts == CleanTexts(all_docs, 1, <<>>)
        metas == Metadatas(all_docs, 1, <<>>)
    IN  IF all_docs = <<>>
        THEN [CurrentIndex EXCEPT !.ok = FALSE]
        ELSE IF Vocabulary(texts) = {}
             THEN \* fit_transform raises ValueError (empty vocabulary)
                  [ok |-> FALSE, vectors |-> document_vectors, texts |-> texts,
                   metadata |-> metas, idf |-> vectorizer]
             ELSE LET idf == FitIdf(texts)
                  IN  [ok |-> TRUE, vectors |-> TransformAll(idf, texts, 1, <<>>),
                       texts |-> texts, metadata |-> metas, idf |-> idf]

\* variant: a read on a built index drops the cached texts
EnsureIndex_Forgetful ==
    IF document_vectors = NoVectors THEN BuiltIndex
    ELSE [CurrentIndex EXCEPT !.texts = <<>>]

\* "if self.document_vectors is None: if not self.build_similarity_index(): return"
EnsureIndex == IF document_vectors = NoVectors THEN BuiltIndex ELSE CurrentIndex

\* variant: an unknown id falls back to the first document
find_document_index_First(metadata, doc_id) ==
    IF \E i \in 1..Len(metadata) : metadata[i].doc_id = doc_id
    THEN CHOOSE i \in 1..Len(metadata) :
            /\ metadata[i].doc_id = doc_id
            /\ \A j \in 1..(i - 1) : metadata[j].doc_id # doc_id
    ELSE IF metadata = <<>> THEN NoIndex ELSE 1

\* _find_document_index
find_document_index(metadata, doc_id) ==
    IF \E i \in 1..Len(metadata) : metadata[i].doc_id = doc_id
    THEN CHOOSE i \in 1..Len(metadata) :
            /\ metadata[i].doc_id = doc_id
            /\ \A j \in 1..(i - 1) : metadata[j].doc_id # doc_id
    ELSE NoIndex

Indices(n) == [i \in 1..n |-> i]

ResultEntry(ix, i, score) ==
    [document_id |-> ix.metadata[i].doc_id,
     file_name |-> ix.metadata[i].file_name,
     similarity_score |-> score]

\* variant: the test without i != doc_index
Qualifies_WithSelf(i, doc_index, similarity, threshold) == Meets(similarity, threshold)

\* "if i != doc_index and similarity >= similarity_threshold"
Qualifies(i, doc_index, similarity, threshold) ==
    i # doc_index /\ Meets(similarity, threshold)

RECURSIVE SimilarLoop(_, _, _, _, _)
\* the loop of find_similar_documents over enumerate(similarities)
SimilarLoop(ix, doc_index, threshold, i, similar_docs) ==
    IF i > Len(ix.vectors) THEN similar_docs
    ELSE LET similarity == cosine_similarity(ix.vectors[doc_index], ix.vectors[i])
         IN  IF Qualifies(i, doc_index, similarity, threshold)
             THEN SimilarLoop(ix, doc_index, threshold, i + 1,
                              Append(similar_docs, ResultEntry(ix, i, similarity)))
             ELSE SimilarLoop(ix, doc_index, threshold, i + 1, similar_docs)

SimilarDocs(ix, doc_index, threshold) == SimilarLoop(ix, doc_index, threshold, 1, <<>>)

RECURSIVE MatchLoop(_, _, _, _, _)
\* the loop of search_by_content over enumerate(similarities)
MatchLoop(ix, query_vector, threshold, i, matching_docs) ==
    IF i > Len(ix.vectors) THEN matching_docs
    ELSE LET similarity == cosine_similarity(query_vector, ix.vectors[i])
         IN  IF Meets(similarity, threshold)
             THEN MatchLoop(ix, query_vector, threshold, i + 1,
                            Append(matching_docs, ResultEntry(ix, i, similarity)))
             ELSE MatchLoop(ix, query_vector, threshold, i + 1, matching_docs)

MatchingDocs(ix, query, threshold) ==
    MatchLoop(ix, Transform(ix.idf, clean_text(query)), threshold, 1, <<>>)

\* variant: an unstable sort, equal keys end up in reverse order
InsertByScore_Unstable(sorted, e) ==
    LET ahead == Cardinality({p \in 1..Len(sorted) : sorted[p].similarity_score > e.similarity_score})
    IN  SubSeq(sorted, 1, ahead) \o <<e>> \o SubSeq(sorted, ahead + 1, Len(sorted))

\* list.sort(key=similarity_score, reverse=True) keeps equal keys in their order
InsertByScore(sorted, e) ==
    LET ahead == Cardinality({p \in 1..Len(sorted) : sorted[p].similarity_score >= e.similarity_score})
    IN  SubSeq(sorted, 1, ahead) \o <<e>> \o SubSeq(sorted, ahead + 1, Len(sorted))

RECURSIVE SortFrom(_, _, _)
SortFrom(s, i, acc) ==
    IF i > Len(s) THEN acc ELSE SortFrom(s, i + 1, InsertByScore(acc, s[i]))

SortByScoreDesc(s) == SortFrom(s, 1, <<>>)

FindSimilarResult(ix, doc_id, n_results, threshold) ==
    IF ~ix.ok THEN <<>>
    ELSE LET doc_index == find_document_index(ix.metadata, doc_id)
         IN  IF doc_index = NoIndex THEN <<>>
             ELSE PySliceTo(SortByScoreDesc(SimilarDocs(ix, doc_index, threshold)), n_results)

SearchResult(ix, query, n_results, threshold) ==
    IF ~ix.ok THEN <<>>
    ELSE PySliceTo(SortByScoreDesc(MatchingDocs(ix, query, threshold)), n_results)

\* cosine_similarity(self.document_vectors)[i][j]
SimilarityMatrix(ix, i, j) == cosine_similarity(ix.vectors[i], ix.vectors[j])

DuplicateGroup(ix, i, similar_indices) ==
    <<ResultEntry(ix, i, 1000)>> \o
    [k \in 1..Len(similar_indices) |->
        ResultEntry(ix, similar_indices[k], SimilarityMatrix(ix, i, similar_indices[k]))]

RECURSIVE DuplicateLoop(_, _, _, _, _)
\* the loop of find_duplicate_documents over i with its processed set
DuplicateLoop(ix, threshold, i, processed, duplicate_groups) ==
    IF i > Len(ix.vectors) THEN duplicate_groups
    ELSE IF i \in processed
         THEN DuplicateLoop(ix, threshold, i + 1, processed, duplicate_groups)
         ELSE LET similar_indices ==
                      SelectSeq(Indices(Len(ix.vectors)),
                          LAMBDA j : j > i /\ Meets(SimilarityMatrix(ix, i, j), threshold))
              IN  IF similar_indices # <<>>
                  THEN DuplicateLoop(ix, threshold, i + 1,
                                     processed \cup Range(similar_indices) \cup {i},
                                     Append(duplicate_groups, DuplicateGroup(ix, i, similar_indices)))
                  ELSE DuplicateLoop(ix, threshold, i + 1, processed \cup {i}, duplicate_groups)

DuplicatesResult(ix, threshold) ==
    IF ~ix.ok THEN <<>> ELSE DuplicateLoop(ix, threshold, 1, {}, <<>>)

\* cluster_documents: len(self.document_vectors) is taken of the scipy sparse
\* matrix returned by fit_transform; its __len__ raises TypeError, the
\* handler logs it and returns {} without running KMeans
ClusterResult(ix, n_clusters) == <<>>

\* the upper triangle of the similarity matrix, diagonal excluded
UpperTriangle(n) == {pr \in (1..n) \X (1..n) : pr[1] < pr[2]}

\* get_similarity_statistics on a built index: np.max of an empty upper
\* triangle raises ValueError, which the handler turns into an error record
StatisticsResult ==
    IF document_vectors = NoVectors THEN [error |-> "Similarity index not built"]
    ELSE LET n == Len(document_vectors)
             ut == UpperTriangle(n)
             \* upper_triangle, each value with its position
             cells == {<<pr[1], pr[2],
                         cosine_similarity(document_vectors[pr[1]], document_vectors[pr[2]])>> :
                           pr \in ut}
             sims == {c[3] : c \in cells}
         IN  IF ut = {} THEN [error |-> "zero-size array to reduction operation maximum"]
             ELSE [total_documents |-> Len(document_metadata),
                   max_similarity |-> CHOOSE m \in sims : \A x \in sims : x <= m,
                   min_similarity |-> CHOOSE m \in sims : \A x \in sims : x >= m,
                   high_similarity_count |-> Cardinality({c \in cells : c[3] > 640}),
                   medium_similarity_count |->
                       Cardinality({c \in cells : c[3] > 250 /\ c[3] <= 640}),
                   low_similarity_count |-> Cardinality({c \in cells : c[3] <= 250})]

\* -------------------------------------------------------- daily_agent
\* variant: strict comparisons at the tier boundaries
get_urgency_level_Strict(days_until_expiry) ==
    IF days_until_expiry < 7 THEN "CRITICAL"
    ELSE IF days_until_expiry < 14 THEN "HIGH"
    ELSE IF days_until_expiry < 30 THEN "MEDIUM"
    ELSE "LOW"

\* _get_urgency_level
get_urgency_level(days_until_expiry) ==
    IF days_until_expiry <= 7 THEN "CRITICAL"
    ELSE IF days_until_expiry <= 14 THEN "HIGH"
    ELSE IF days_until_expiry <= 30 THEN "MEDIUM"
    ELSE "LOW"

\* datetime.strptime(text, fmt): midnight of the day, when the format fits
Parses(text, fmt) == text.format = fmt

strptime(text) == text.day * TicksPerDay

\* variant: only the first format is tried
ParseDate_LongFormatOnly(text) ==
    IF Parses(text, "%B %d, %Y") THEN strptime(text) ELSE NoDate

\* the two formats tried on a date string; NoDate when both raise ValueError
ParseDate(text) ==
    IF Parses(text, "%B %d, %Y") THEN strptime(text)
    ELSE IF Parses(text, "%Y-%m-%d") THEN strptime(text)
    ELSE NoDate

RECURSIVE FirstParsed(_, _)
\* the loop over date_patterns: the first match of the content that parses
FirstParsed(date_matches, i) ==
    IF i > Len(date_matches) THEN NoDate
    ELSE IF ParseDate(date_matches[i]) # NoDate THEN ParseDate(date_matches[i])
         ELSE FirstParsed(date_matches, i + 1)

\* _extract_expiration_date: metadata first, then the content
extract_expiration_date(doc) ==
    LET expiration_str == doc.metadata.expiration_date
    IN  IF expiration_str # NoDateText /\ ParseDate(expiration_str) # NoDate
        THEN ParseDate(expiration_str)
        ELSE FirstParsed(doc.content.date_matches, 1)

\* (expiration_date - datetime.now()).days: timedelta.days rounds down
DaysBetween(expiration_date, now) == (expiration_date - now) \div TicksPerDay

\* doc['metadata'].get('contract_id', 'N/A')
ContractIdOrNA(doc) ==
    IF doc.metadata.contract_id = None THEN "N/A" ELSE doc.metadata.contract_id

ExpiringEntry(doc, expiration_date, now) ==
    [document_id |-> doc.id,
     file_name |-> doc.metadata.file_name,
     contract_id |-> ContractIdOrNA(doc),
     companies |-> doc.metadata.companies,
     expiration_date |-> expiration_date,
     days_until_expiry |-> DaysBetween(expiration_date, now),
     urgency |-> get_urgency_level(DaysBetween(expiration_date, now))]

RECURSIVE ExpiringLoop(_, _, _, _, _)
\* the loop of _find_expiring_contracts over all_docs
ExpiringLoop(all_docs, cutoff_date, now, i, expiring_contracts) ==
    IF i > Len(all_docs) THEN expiring_contracts
    ELSE LET expiration_date == extract_expiration_date(all_docs[i])
         IN  IF expiration_date # NoDate /\ expiration_date <= cutoff_date
             THEN ExpiringLoop(all_docs, cutoff_date, now, i + 1,
                               Append(expiring_contracts,
                                      ExpiringEntry(all_docs[i], expiration_date, now)))
             ELSE ExpiringLoop(all_docs, cutoff_date, now, i + 1, expiring_contracts)

\* variant: an unstable sort, equal keys end up in reverse order
InsertByDays_Unstable(sorted, e) ==
    LET ahead == Cardinality({p \in 1..Len(sorted) :
                                 sorted[p].days_until_expiry < e.days_until_expiry})
    IN  SubSeq(sorted, 1, ahead) \o <<e>> \o SubSeq(sorted, ahead + 1, Len(sorted))

\* list.sort(key=days_until_expiry) keeps equal keys in their order
InsertByDays(sorted, e) ==
    LET ahead == Cardinality({p \in 1..Len(sorted) :
                                 sorted[p].days_until_expiry <= e.days_until_expiry})
    IN  SubSeq(sorted, 1, ahead) \o <<e>> \o SubSeq(sorted, ahead + 1, Len(sorted))

RECURSIVE SortByDaysFrom(_, _, _)
SortByDaysFrom(s, i, acc) ==
    IF i > Len(s) THEN acc ELSE SortByDaysFrom(s, i + 1, InsertByDays(acc, s[i]))

\* _find_expiring_contracts with self.expiration_alert_days = alert_days:
\* now0 is the clock read for cutoff_date, now1 the later reading inside
\* the loop
ExpiringContractsWithin(all_docs, alert_days, now0, now1) ==
    SortByDaysFrom(
        ExpiringLoop(all_docs, now0 + alert_days * TicksPerDay, now1, 1, <<>>),
        1, <<>>)

\* _find_expiring_contracts of the agent as it is configured
ExpiringContracts(all_docs, now0, now1) ==
    ExpiringContractsWithin(all_docs, expiration_alert_days, now0, now1)

\* datetime.now() + timedelta(days=...) raises OverflowError past
\* datetime.max
CutoffOverflows(alert_days, now0) ==
    (now0 \div TicksPerDay) + alert_days > DaysToDatetimeMax

RECURSIVE Flatten(_)
\* the concatenation of a list of lists, as nested loops append
Flatten(ss) == IF Len(ss) = 0 THEN <<>> ELSE Head(ss) \o Flatten(Tail(ss))

RECURSIVE KeysFrom(_, _, _)
\* the keys of a dict in insertion order: each key where it first appears
KeysFrom(ks, i, acc) ==
    IF i > Len(ks) THEN acc
    ELSE IF ks[i] \in Range(acc) THEN KeysFrom(ks, i + 1, acc)
         ELSE KeysFrom(ks, i + 1, Append(acc, ks[i]))

\* the three address_patterns, in the order they are tried
AddressPatterns == <<"Address", "Business Address", "Office Address">>

\* re.findall(pattern, content, re.IGNORECASE): "Address:" also matches
\* inside "Business Address:" and "Office Address:"
AddressMatches(content, pattern) ==
    LET lines == SelectSeq(content.address_lines,
                           LAMBDA l : pattern = "Address" \/ l.label = pattern)
    IN  [m \in 1..Len(lines) |-> lines[m].address]

\* the entries appended to company_addresses, in the order of the loops
\* over docs, patterns, matches and companies
AddressObservations(docs) ==
    Flatten([d \in 1..Len(docs) |->
      Flatten([p \in 1..Len(AddressPatterns) |->
        LET matches == AddressMatches(docs[d].content, AddressPatterns[p])
        IN  Flatten([m \in 1..Len(matches) |->
              [c \in 1..Len(docs[d].metadata.companies) |->
                 [company |-> docs[d].metadata.companies[c],
                  address |-> matches[m],
                  document |-> docs[d].metadata.file_name,
                  document_id |-> docs[d].id]]])])])

StripCompany(obs) == [k \in 1..Len(obs) |->
    [address |-> obs[k].address, document |-> obs[k].document,
     document_id |-> obs[k].document_id]]

\* variant: only the first and the last address seen are compared
AddressConflicting_Ends(addresses) ==
    addresses[1].address # addresses[Len(addresses)].address

\* variant: a record for every company that has an address at all
AddressConflicting_Any(addresses) ==
    Cardinality({addresses[k].address : k \in 1..Len(addresses)}) > 0

\* len(unique_addresses) > 1
AddressConflicting(addresses) ==
    Cardinality({addresses[k].address : k \in 1..Len(addresses)}) > 1

\* _detect_address_conflicts
detect_address_conflicts(docs) ==
    LET obs == AddressObservations(docs)
        companies == KeysFrom([k \in 1..Len(obs) |-> obs[k].company], 1, <<>>)
        of(c) == SelectSeq(obs, LAMBDA o : o.company = c)
        hit == SelectSeq(companies, LAMBDA c : AddressConflicting(of(c)))
    IN  [k \in 1..Len(hit) |->
            [type |-> "address_conflict",
             company |-> hit[k],
             conflicting_addresses |-> StripCompany(of(hit[k])),
             severity |-> "HIGH"]]

\* variant: a document without contract id takes part as well
DateParticipates_NoId(doc) == extract_expiration_date(doc) # NoDate

\* "if not contract_id: continue" and "if expiration_date:"
DateParticipates(doc) ==
    /\ doc.metadata.contract_id # None
    /\ doc.metadata.contract_id # ""
    /\ extract_expiration_date(doc) # NoDate

\* the entries appended to contract_dates, in document order
DateObservations(docs) ==
    LET with == SelectSeq(docs, DateParticipates)
    IN  [k \in 1..Len(with) |->
            [contract_id |-> with[k].metadata.contract_id,
             date |-> extract_expiration_date(with[k]),
             document |-> with[k].metadata.file_name,
             document_id |-> with[k].id]]

StripContract(obs) == [k \in 1..Len(obs) |->
    [date |-> obs[k].date, document |-> obs[k].document,
     document_id |-> obs[k].document_id]]

\* _detect_date_conflicts
detect_date_conflicts(docs) ==
    LET obs == DateObservations(docs)
        ids == KeysFrom([k \in 1..Len(obs) |-> obs[k].contract_id], 1, <<>>)
        of(c) == SelectSeq(obs, LAMBDA o : o.contract_id = c)
        hit == SelectSeq(ids, LAMBDA c :
                   Cardinality({of(c)[k].date : k \in 1..Len(of(c))}) > 1)
    IN  [k \in 1..Len(hit) |->
            [type |-> "date_conflict",
             contract_id |-> hit[k],
             conflicting_dates |-> StripContract(of(hit[k])),
             severity |-> "HIGH"]]

\* contact_info is not empty: one of Contact:, Email:, Phone: was found
HasContactInfo(content) ==
    content.contact # None \/ content.email # None \/ content.phone # None

\* the (company, document) pairs of the loops over docs and companies
CompanyMentions(docs) ==
    Flatten([d \in 1..Len(docs) |->
      [c \in 1..Len(docs[d].metadata.companies) |->
         [company |-> docs[d].metadata.companies[c],
          contact_info |-> [contact |-> docs[d].content.contact,
                            email |-> docs[d].content.email,
                            phone |-> docs[d].content.phone],
          has_info |-> HasContactInfo(docs[d].content),
          document |-> docs[d].metadata.file_name,
          document_id |-> docs[d].id]]])

StripMention(obs) == [k \in 1..Len(obs) |->
    [contact_info |-> obs[k].contact_info, document |-> obs[k].document,
     document_id |-> obs[k].document_id]]

\* variant: "and" in place of "or"
ContactConflicting_Both(info_list) ==
    LET emails == {info_list[k].contact_info.email : k \in 1..Len(info_list)} \ {None}
        phones == {info_list[k].contact_info.phone : k \in 1..Len(info_list)} \ {None}
    IN  Len(info_list) > 1 /\ (Cardinality(emails) > 1 /\ Cardinality(phones) > 1)

\* len(info_list) > 1 and (len(emails) > 1 or len(phones) > 1)
ContactConflicting(info_list) ==
    LET emails == {info_list[k].contact_info.email : k \in 1..Len(info_list)} \ {None}
        phones == {info_list[k].contact_info.phone : k \in 1..Len(info_list)} \ {None}
    IN  Len(info_list) > 1 /\ (Cardinality(emails) > 1 \/ Cardinality(phones) > 1)

\* _detect_company_conflicts
detect_company_conflicts(docs) ==
    LET mentions == CompanyMentions(docs)
        companies == KeysFrom([k \in 1..Len(mentions) |-> mentions[k].company], 1, <<>>)
        of(c) == SelectSeq(mentions, LAMBDA o : o.company = c /\ o.has_info)
        hit == SelectSeq(companies, LAMBDA c : ContactConflicting(of(c)))
    IN  [k \in 1..Len(hit) |->
            [type |-> "contact_conflict",
             company |-> hit[k],
             conflicting_info |-> StripMention(of(hit[k])),
             severity |-> "MEDIUM"]]

\* _detect_conflicts
detect_conflicts(all_docs) ==
    detect_address_conflicts(all_docs) \o detect_date_conflicts(all_docs)
        \o detect_company_conflicts(all_docs)

\* urgency_counts[contract['urgency']] += 1
CountUrgency(contracts, u) ==
    Cardinality({k \in 1..Len(contracts) : contracts[k].urgency = u})

\* conflict_types[conflict['type']] += 1
CountType(conflicts, t) ==
    Cardinality({k \in 1..Len(conflicts) : conflicts[k].type = t})

\* variant: only the CRITICAL count decides
RequiresAttention_CriticalOnly(critical, conflict_count) == critical > 0

\* urgency_counts["CRITICAL"] > 0 or conflict_count > 0
RequiresAttention(critical, conflict_count) == critical > 0 \/ conflict_count > 0

\* _generate_summary
generate_summary(report) ==
    LET urgency_counts ==
            [u \in {"CRITICAL", "HIGH", "MEDIUM", "LOW"} |->
                CountUrgency(report.expiring_contracts, u)]
        conflict_types ==
            [t \in {report.conflicts[k].type : k \in 1..Len(report.conflicts)} |->
                CountType(report.conflicts, t)]
    IN  [total_expiring_contracts |-> Len(report.expiring_contracts),
         total_conflicts |-> Len(report.conflicts),
         urgency_breakdown |-> urgency_counts,
         conflict_types |-> conflict_types,
         requires_immediate_attention |->
             RequiresAttention(urgency_counts["CRITICAL"], Len(report.conflicts))]

\* one template of _generate_recommendations with the count it is filled with
Recommend(template, n) ==
    IF n > 0 THEN <<[template |-> template, count |-> n]>> ELSE <<>>

\* variant: the general recommendation is appended in every report
GeneralRecommendation_Always(recommendations) ==
    <<[template |-> "No immediate issues detected", count |-> 0]>>

\* "if not recommendations: recommendations.append(...)"
GeneralRecommendation(recommendations) ==
    IF recommendations = <<>>
    THEN <<[template |-> "No immediate issues detected", count |-> 0]>>
    ELSE <<>>

\* _generate_recommendations
generate_recommendations(report) ==
    LET recommendations ==
            Recommend("URGENT: contracts expire within 7 days",
                      CountUrgency(report.expiring_contracts, "CRITICAL"))
            \o Recommend("Review contracts expiring within 14 days",
                      CountUrgency(report.expiring_contracts, "HIGH"))
            \o Recommend("Resolve address conflicts",
                      CountType(report.conflicts, "address_conflict"))
            \o Recommend("Clarify date conflicts",
                      CountType(report.conflicts, "date_conflict"))
    IN  recommendations \o GeneralRecommendation(recommendations)

\* run_daily_analysis: the report with its summary and recommendations
DailyReport(all_docs, now0, now1) ==
    LET report == [expiring_contracts |-> ExpiringContracts(all_docs, now0, now1),
                   conflicts |-> detect_conflicts(all_docs)]
    IN  [expiring_contracts |-> report.expiring_contracts,
         conflicts |-> report.conflicts,
         summary |-> generate_summary(report),
         recommendations |-> generate_recommendations(report)]

\* ---------------------------------------------------- mcp_integration
Executors == 1..MaxExecutions
WorkflowIds == {"daily_analysis", "document_processing"}

\* an empty dict
EmptyDict == [k \in {} |-> None]

\* WorkflowStep: the fields the engine reads
Step(name, max_retries, depends_on) ==
    [name |-> name, max_retries |-> max_retries, depends_on |-> depends_on]

\* the step lists workflows are registered with
StepLists ==
    {<<>>,
     <<Step("process_documents", 1, <<>>),
       Step("verify_processing", 0, <<"process_documents">>)>>,
     <<Step("verify_processing", 0, <<"process_documents">>),
       Step("process_documents", 0, <<>>)>>}

\* what one attempt of step.function under asyncio.wait_for can do
Outcomes == {"returned", "raised", "timed out"}

\* WorkflowResult
WorkflowResult(workflow_id, status, steps_completed, total_steps, results, error) ==
    [workflow_id |-> workflow_id, status |-> status,
     steps_completed |-> steps_completed, total_steps |-> total_steps,
     results |-> results, error |-> error]

\* error = None
NoError == [kind |-> "", name |-> ""]

\* an execute_workflow coroutine: where it stands and its WorkflowResult so
\* far; started lists the steps whose function was invoked
IdleExecution ==
    [pc |-> "idle", workflow_id |-> "", steps |-> <<>>, i |-> 0, attempt |-> 0,
     results |-> EmptyDict, steps_completed |-> 0, status |-> "pending",
     error |-> NoError, started |-> <<>>]

\* __init__ of CLMWorkflowEngine
EngineConstructed ==
    /\ workflows = EmptyDict
    /\ running_workflows = EmptyDict
    /\ executions = [e \in Executors |-> IdleExecution]
    /\ registered = {}

\* variant: the new entry replaces the dict
Registered_Replacing(ws, workflow_id, steps) ==
    workflow_id :> [steps |-> steps, status |-> "pending"]

\* self.workflows[workflow_id] = {"steps": steps, ..., "status": PENDING}
Registered(ws, workflow_id, steps) ==
    (workflow_id :> [steps |-> steps, status |-> "pending"]) @@ ws

\* "if workflow_id not in self.workflows": the result returned at once;
\* its results field is None, it holds no step result
NotFound(workflow_id) ==
    WorkflowResult(workflow_id, "failed", 0, 0, EmptyDict,
                   [kind |-> "not found", name |-> workflow_id])

RECURSIVE FirstUnmet(_, _, _)
\* "for dep in step.depends_on: if dep not in result.results": the first
\* such dep, None when there is none
FirstUnmet(depends_on, results, k) ==
    IF k > Len(depends_on) THEN None
    ELSE IF depends_on[k] \notin DOMAIN results THEN depends_on[k]
         ELSE FirstUnmet(depends_on, results, k + 1)

\* the except branch: status FAILED with the error recorded
Failed(x, error) == [x EXCEPT !.pc = "finished", !.status = "failed", !.error = error]

\* variant: an unmet dependency is not checked
Proceed_Unchecked(x) ==
    IF x.i > Len(x.steps) THEN [x EXCEPT !.pc = "finished", !.status = "completed"]
    ELSE [x EXCEPT !.pc = "awaiting", !.attempt = 0, !.started = Append(@, x.i)]

\* the loop of execute_workflow from step x.i up to its next await: the
\* dependency check of the step, then _execute_step awaits step.function
Proceed(x) ==
    IF x.i > Len(x.steps) THEN [x EXCEPT !.pc = "finished", !.status = "completed"]
    ELSE LET dep == FirstUnmet(x.steps[x.i].depends_on, x.results, 1)
         IN  IF dep # None
             THEN Failed(x, [kind |-> "dependency", name |-> dep])
             ELSE [x EXCEPT !.pc = "awaiting", !.attempt = 0,
                            !.started = Append(@, x.i)]

\* result.results[step.name] = step_result; result.steps_completed += 1
Recorded(x, step_result) ==
    [x EXCEPT !.results = (x.steps[x.i].name :> step_result) @@ @,
              !.steps_completed = @ + 1]

\* one attempt of _execute_step has ended, the coroutine runs on to its
\* next await or to its end
AfterAttempt(x, outcome) ==
    LET step == x.steps[x.i]
    IN  IF outcome = "returned"
        THEN Proceed([Recorded(x, "success") EXCEPT !.i = @ + 1])
        ELSE IF x.attempt = step.max_retries
             THEN Failed(Recorded(x, "error"), [kind |-> "step", name |-> step.name])
             ELSE [x EXCEPT !.attempt = @ + 1]

\* the WorkflowResult of an execution
ResultOf(x) ==
    WorkflowResult(x.workflow_id, x.status, x.steps_completed, Len(x.steps),
                   x.results, x.error)

\* finally: "if workflow_id in self.running_workflows: del ..."
Deleted(running, workflow_id, e) ==
    [w \in DOMAIN running \ {workflow_id} |-> running[w]]

\* get_workflow_status(workflow_id) of the orchestrator
WorkflowStatusOf(workflow_id) ==
    IF workflow_id \in DOMAIN running_workflows THEN "running"
    ELSE IF workflow_id \in DOMAIN workflows THEN "registered"
    ELSE "not found"

\* --------------------------------------------------------- mcp_server
\* self.clm_system = None
NoSystem == [constructed |-> FALSE, daily_agent |-> FALSE, initialized |-> FALSE]

\* CLMAutomationSystem.__init__: no component yet, initialized = False
NewSystem == [constructed |-> TRUE, daily_agent |-> FALSE, initialized |-> FALSE]

ToolCall(tool_name, arguments) == [tool_name |-> tool_name, arguments |-> arguments]

NoPending == ToolCall("", EmptyDict)

\* the tools of self.tools the model calls
Tools == {"detect_conflicts", "find_expiring_contracts"}

ConflictTypeInputs == {"all", "address", "date", "contact", "Address_Conflict"}

DaysInputs == {7, 3000000}

\* the calls a client sends: a tool with its arguments, or with none
ToolCalls ==
    {ToolCall("detect_conflicts", "conflict_type" :> t) : t \in ConflictTypeInputs}
      \cup {ToolCall("find_expiring_contracts", "days" :> d) : d \in DaysInputs}
      \cup {ToolCall(t, EmptyDict) : t \in {"find_expiring_contracts", "export_contracts"}}

\* args.get(key, default)
Get(args, key, default) == IF key \in DOMAIN args THEN args[key] ELSE default

\* str.lower()
Lower(text) == IF text = "Address_Conflict" THEN "address_conflict" ELSE text

\* __init__ of CLMMCPServer; the agent's window is the configured one
ServerConstructed ==
    /\ clm_system = NoSystem
    /\ expiration_alert_days = EXPIRATION_ALERT_DAYS
    /\ pending = NoPending

\* the except branch of call_tool
ErrorExecuting(tool_name) == [error |-> "Error executing", tool |-> tool_name]

\* c.get("type", "").lower() == conflict_type.lower()
TypeMatches(conflict, conflict_type) == Lower(conflict.type) = Lower(conflict_type)

\* _detect_conflicts of the server
detect_conflicts_tool(args) ==
    LET conflict_type == Get(args, "conflict_type", "all")
        found == detect_conflicts(get_all_documents)
        conflicts == IF conflict_type # "all"
                     THEN SelectSeq(found, LAMBDA c : TypeMatches(c, conflict_type))
                     ELSE found
    IN  [conflict_type |-> conflict_type, conflicts |-> conflicts,
         count |-> Len(conflicts)]

\* _find_expiring_contracts of the server: the response and the value
\* expiration_alert_days is left with; an exception of the agent's method
\* leaves the handler before "Restore original setting"
find_expiring_contracts_tool(args, now0, now1) ==
    LET alert_days == Get(args, "days", 30)
        original_days == expiration_alert_days
    IN  IF CutoffOverflows(alert_days, now0)
        THEN [response |-> ErrorExecuting("find_expiring_contracts"),
              expiration_alert_days |-> alert_days]
        ELSE LET expiring == ExpiringContractsWithin(get_all_documents, alert_days,
                                                     now0, now1)
             IN  [response |-> [days_ahead |-> alert_days,
                                expiring_contracts |-> expiring,
                                count |-> Len(expiring)],
                  expiration_alert_days |-> original_days]

\* call_tool after initialize_system has returned True: the response and
\* what the handler leaves in expiration_alert_days; self.clm_system.daily_agent
\* is None until initialize has constructed the agent
Dispatch(call, now0, now1) ==
    IF call.tool_name \notin Tools
    THEN [response |-> [error |-> "not found", tool |-> call.tool_name],
          expiration_alert_days |-> expiration_alert_days]
    ELSE IF ~clm_system.daily_agent
    THEN [response |-> ErrorExecuting(call.tool_name),
          expiration_alert_days |-> expiration_alert_days]
    ELSE IF call.tool_name = "detect_conflicts"
    THEN [response |-> detect_conflicts_tool(call.arguments),
          expiration_alert_days |-> expiration_alert_days]
    ELSE find_expiring_contracts_tool(call.arguments, now0, now1)

\* what call_tool leaves in last: the call, whether a handler was
\* dispatched, the system as the call saw it, and the response
Answered(call, dispatched, system, response) ==
    [op |-> "call_tool", args |-> <<call.tool_name, call.arguments>>,
     result |-> response, built |-> FALSE,
     dispatched |-> dispatched, system |-> system]

FailedToInitialize == [error |-> "Failed to initialize CLM system", tool |-> ""]

\* the constructors of the workflow engine and of the MCP server
McpConstructed == EngineConstructed /\ ServerConstructed

\* ------------------------------------------------------------- actions
Call(op, args, result) ==
    [op |-> op, args |-> args, result |-> result,
     built |-> document_vectors # NoVectors]

NoCall == [op |-> "init", args |-> <<>>, result |-> None, built |-> FALSE]

SetIndex(ix) ==
    /\ document_vectors' = ix.vectors
    /\ document_texts' = ix.texts
    /\ document_metadata' = ix.metadata
    /\ vectorizer' = ix.idf

\* the directory found at start-up: files 1..m, each holding some text
InitialDirectories ==
    UNION {{[p \in Paths |-> IF p <= m THEN [mtime |-> p, content |-> cs[p]] ELSE NoFile] :
                cs \in [1..m -> LoadableContents]} : m \in 0..NumPaths}

\* DocumentSimilarityDetector.__init__
DetectorConstructed ==
    /\ document_vectors = NoVectors
    /\ document_texts = <<>>
    /\ document_metadata = <<>>
    /\ vectorizer = Unfitted
    /\ last = NoCall

\* DocumentProcessor.__init__ and DocumentSimilarityDetector.__init__
Constructed ==
    /\ document_registry = <<>>
    /\ vector_db = {}
    /\ DetectorConstructed

\* CLMSystem.initialize up to the construction of the detector: the
\* processor has loaded the directory, the index is not built yet
Init ==
    /\ fs \in InitialDirectories
    /\ clock = NumPaths
    /\ request \in [n_results : NResults, threshold : Thresholds]
    /\ document_registry =
           LoadInto(WalkOrder, 1, [documents |-> <<>>, registry |-> <<>>]).registry
    /\ vector_db = RegistryIdsOf(document_registry)
    /\ DetectorConstructed
    /\ McpConstructed
    /\ days = 0
    /\ urgency = None

process_all_documents ==
    LET loaded == load_documents
        ids == {loaded.documents[i].id : i \in 1..Len(loaded.documents)}
    IN  /\ document_registry' = loaded.registry
        /\ vector_db' = vector_db \cup ids
        /\ last' = Call("process_all_documents", <<>>, loaded.documents # <<>>)
        /\ UNCHANGED <<fs, clock, indexVars, request, urgVars, mcpVars>>

build_similarity_index ==
    /\ LET ix == BuiltIndex
       IN  /\ SetIndex(ix)
           /\ last' = Call("build_similarity_index", <<>>, ix.ok)
    /\ UNCHANGED <<procVars, request, urgVars, mcpVars>>

find_similar_documents(doc_id, n_results, threshold) ==
    /\ LET ix == EnsureIndex
       IN  /\ SetIndex(ix)
           /\ last' = Call("find_similar_documents", <<doc_id, n_results, threshold>>,
                           FindSimilarResult(ix, doc_id, n_results, threshold))
    /\ UNCHANGED <<procVars, request, urgVars, mcpVars>>

search_by_content(query, n_results, threshold) ==
    /\ LET ix == EnsureIndex
       IN  /\ SetIndex(ix)
           /\ last' = Call("search_by_content", <<query, n_results, threshold>>,
                           SearchResult(ix, query, n_results, threshold))
    /\ UNCHANGED <<procVars, request, urgVars, mcpVars>>

find_duplicate_documents(threshold) ==
    /\ LET ix == EnsureIndex
       IN  /\ SetIndex(ix)
           /\ last' = Call("find_duplicate_documents", <<threshold>>,
                           DuplicatesResult(ix, threshold))
    /\ UNCHANGED <<procVars, request, urgVars, mcpVars>>

cluster_documents(n_clusters) ==
    /\ LET ix == EnsureIndex
       IN  /\ SetIndex(ix)
           /\ last' = Call("cluster_documents", <<n_clusters>>,
                           ClusterResult(ix, n_clusters))
    /\ UNCHANGED <<procVars, request, urgVars, mcpVars>>

get_similarity_statistics ==
    /\ last' = Call("get_similarity_statistics", <<>>, StatisticsResult)
    /\ UNCHANGED <<procVars, indexVars, request, urgVars, mcpVars>>

DocIdInputs == RegistryIdsOf(document_registry) \cup {UnknownId}

Next ==
    \/ build_similarity_index
    \/ \E d \in DocIdInputs : find_similar_documents(d, request.n_results, request.threshold)
    \/ \E q \in QueryTexts : search_by_content(q, request.n_results, request.threshold)
    \/ find_duplicate_documents(request.threshold)
    \/ \E k \in NClusters : cluster_documents(k)
    \/ get_similarity_statistics

Spec == Init /\ [][Next]_vars

\* ---------------------------------------------- registry specification
InitRegistry ==
    /\ fs = [p \in Paths |-> NoFile]
    /\ clock = 0
    /\ request = [n_results |-> 0, threshold |-> 0]
    /\ Constructed
    /\ McpConstructed
    /\ days = 0
    /\ urgency = None

\* a file of the documents directory is created or rewritten
WriteFile(p, c) ==
    /\ clock < MaxWrites
    /\ clock' = clock + 1
    /\ fs' = [fs EXCEPT ![p] = [mtime |-> clock + 1, content |-> c]]
    /\ last' = Call("write", <<>>, None)
    /\ UNCHANGED <<document_registry, vector_db, indexVars, request, urgVars, mcpVars>>

\* a file of the documents directory is removed
DeleteFile(p) ==
    /\ fs[p] # NoFile
    /\ fs' = [fs EXCEPT ![p] = NoFile]
    /\ last' = Call("delete", <<>>, None)
    /\ UNCHANGED <<clock, document_registry, vector_db, indexVars, request, urgVars, mcpVars>>

NextRegistry ==
    \/ \E p \in Paths, c \in Contents : WriteFile(p, c)
    \/ \E p \in Paths : DeleteFile(p)
    \/ process_all_documents

SpecRegistry == InitRegistry /\ [][NextRegistry]_vars

\* ---------------------------------------------- urgency specification
DayRange == (-MaxDays)..MaxDays

InitUrgency ==
    /\ fs = [p \in Paths |-> NoFile]
    /\ clock = 0
    /\ request = [n_results |-> 0, threshold |-> 0]
    /\ Constructed
    /\ McpConstructed
    /\ days \in DayRange
    /\ urgency = None

\* the days_until_expiry of the next document
PickDays(d) ==
    /\ days' = d
    /\ urgency' = None
    /\ UNCHANGED <<procVars, indexVars, request, last, mcpVars>>

UrgencyCall ==
    /\ urgency' = get_urgency_level(days)
    /\ days' = days
    /\ UNCHANGED <<procVars, indexVars, request, last, mcpVars>>

NextUrgency ==
    \/ \E d \in DayRange : PickDays(d)
    \/ UrgencyCall

SpecUrgency == InitUrgency /\ [][NextUrgency]_vars

\* ------------------------------------------- daily agent specifications
DateText(fmt, day) == [format |-> fmt, day |-> day]

\* a date string neither format accepts
Unparsed == DateText("%d/%m/%Y", 5)

\* what a text gives the agent: the metadata keys it reads and the matches
\* its own patterns find in the content
Text(contract_id, expiration_date, companies, date_matches, address_lines, email, phone) ==
    [contract_id |-> contract_id, expiration_date |-> expiration_date,
     companies |-> companies, date_matches |-> date_matches,
     address_lines |-> address_lines, contact |-> None, email |-> email, phone |-> phone]

Line(label, address) == [label |-> label, address |-> address]

\* the registry entry of file p holding text t
AgentDoc(p, t) ==
    [id |-> <<p, p, 0>>,
     content |-> [date_matches |-> t.date_matches, address_lines |-> t.address_lines,
                  contact |-> t.contact, email |-> t.email, phone |-> t.phone],
     metadata |-> [doc_id |-> <<p, p, 0>>, file_name |-> p,
                   contract_id |-> t.contract_id,
                   expiration_date |-> t.expiration_date,
                   companies |-> t.companies]]

\* the registries of up to MaxAgentDocs files over a set of texts
Registries(texts) ==
    UNION {{[p \in 1..m |-> AgentDoc(p, ts[p])] : ts \in [1..m -> texts]} :
              m \in 0..MaxAgentDocs}

\* texts that differ in their expiration date only
ExpiryTexts ==
    {Text(None, d, <<>>, m, <<>>, None, None) :
        d \in {NoDateText, Unparsed, DateText("%B %d, %Y", -1), DateText("%B %d, %Y", 5),
               DateText("%Y-%m-%d", 10), DateText("%B %d, %Y", 30), DateText("%B %d, %Y", 31)},
        m \in {<<>>, <<Unparsed, DateText("%B %d, %Y", 5)>>}}

\* contract texts of two companies
AgentTexts ==
    {Text("C-1", DateText("%B %d, %Y", 5), <<"Acme">>, <<>>,
          <<Line("Address", "123 Main St")>>, "a@acme.com", "555-0100"),
     Text("C-1", DateText("%B %d, %Y", 10), <<"Acme">>, <<>>,
          <<Line("Address", "456 Main St")>>, "a@acme.com", "555-0100"),
     Text("C-1", DateText("%Y-%m-%d", 5), <<"Acme">>, <<>>,
          <<Line("Business Address", "123 Main St")>>, "b@acme.com", None),
     Text(None, DateText("%B %d, %Y", 20), <<"Acme", "Beta">>, <<>>,
          <<Line("Address", "123 Main St")>>, None, "555-0199"),
     Text(None, NoDateText, <<>>, <<DateText("%B %d, %Y", 25)>>,
          <<Line("Office Address", "456 Main St")>>, "b@acme.com", "555-0199"),
     [Text("C-2", DateText("%B %d, %Y", 31), <<"Beta">>, <<>>,
           <<>>, None, None) EXCEPT !.contact = "Jane Roe"],
     Text("C-2", Unparsed, <<"Beta", "Beta">>, <<>>,
          <<Line("Address", "123 Main St"), Line("Address", "456 Main St")>>,
          "a@acme.com", "555-0100"),
     Text("", DateText("%B %d, %Y", 40), <<"Acme">>, <<>>,
          <<>>, None, "555-0100"),
     Text(None, NoDateText, <<"Beta", "Acme">>, <<>>,
          <<Line("Address", "456 Main St")>>, None, None)}

InitAgent(texts) ==
    /\ fs = [p \in Paths |-> NoFile]
    /\ clock \in 0..(TicksPerDay - 1)
    /\ request = [n_results |-> 0, threshold |-> 0]
    /\ document_registry \in Registries(texts)
    /\ vector_db = {}
    /\ DetectorConstructed
    /\ McpConstructed
    /\ days = 0
    /\ urgency = None

\* datetime.now() read again after now0: the clock has not gone back
LaterReadings(now0) == {now1 \in now0..(now0 + 1) : now1 <= TicksPerDay}

find_expiring_contracts(now1) ==
    /\ now1 \in LaterReadings(clock)
    /\ clock' = now1
    /\ last' = Call("find_expiring_contracts", <<clock, now1>>,
                    ExpiringContracts(get_all_documents, clock, now1))
    /\ UNCHANGED <<fs, document_registry, vector_db, indexVars, request, urgVars, mcpVars>>

detect_conflicts_call ==
    /\ last' = Call("detect_conflicts", <<>>, detect_conflicts(get_all_documents))
    /\ UNCHANGED <<procVars, indexVars, request, urgVars, mcpVars>>

run_daily_analysis(now1) ==
    /\ now1 \in LaterReadings(clock)
    /\ clock' = now1
    /\ last' = Call("run_daily_analysis", <<clock, now1>>,
                    DailyReport(get_all_documents, clock, now1))
    /\ UNCHANGED <<fs, document_registry, vector_db, indexVars, request, urgVars, mcpVars>>

\* _extract_expiration_date(doc) for the i-th document of the registry
extract_expiration_date_call(i) ==
    /\ i \in 1..Len(document_registry)
    /\ last' = Call("_extract_expiration_date", <<i>>,
                    extract_expiration_date(document_registry[i]))
    /\ UNCHANGED <<procVars, indexVars, request, urgVars, mcpVars>>

InitExpiry == InitAgent(ExpiryTexts)

NextExpiry ==
    \/ \E now1 \in 0..TicksPerDay : find_expiring_contracts(now1)
    \/ \E i \in 1..MaxAgentDocs : extract_expiration_date_call(i)

SpecExpiry == InitExpiry /\ [][NextExpiry]_vars

InitConflicts == InitAgent(AgentTexts)

NextAgent ==
    \/ detect_conflicts_call
    \/ \E now1 \in 0..TicksPerDay : run_daily_analysis(now1)

SpecAgent == InitConflicts /\ [][NextAgent]_vars

\* ------------------------------------------ workflow engine specification
InitWorkflow ==
    /\ fs = [p \in Paths |-> NoFile]
    /\ clock = 0
    /\ request = [n_results |-> 0, threshold |-> 0]
    /\ Constructed
    /\ McpConstructed
    /\ days = 0
    /\ urgency = None

register_workflow(workflow_id, steps) ==
    /\ workflows' = Registered(workflows, workflow_id, steps)
    /\ registered' = registered \cup {workflow_id}
    /\ last' = Call("register_workflow", <<workflow_id>>, TRUE)
    /\ UNCHANGED <<procVars, indexVars, request, urgVars, running_workflows,
                   executions, serverVars>>

\* the coroutine e has run to its next await, or to its return
Settle(e, x, running) ==
    IF x.pc = "finished"
    THEN /\ running_workflows' = Deleted(running, x.workflow_id, e)
         /\ executions' = [executions EXCEPT ![e] = IdleExecution]
         /\ last' = Call("execute_workflow", <<e, x.workflow_id, x.steps, x.started>>,
                         ResultOf(x))
    ELSE /\ running_workflows' = running
         /\ executions' = [executions EXCEPT ![e] = x]
         /\ last' = last

\* execute_workflow is called: the coroutine runs up to its first await
execute_workflow(e, workflow_id) ==
    /\ executions[e].pc = "idle"
    /\ IF workflow_id \notin DOMAIN workflows
       THEN /\ last' = Call("execute_workflow", <<e, workflow_id, <<>>, <<>>>>,
                            NotFound(workflow_id))
            /\ UNCHANGED <<running_workflows, executions>>
       ELSE LET steps == workflows[workflow_id].steps
                result == [IdleExecution EXCEPT !.workflow_id = workflow_id,
                                                !.steps = steps, !.i = 1,
                                                !.status = "running"]
            IN  Settle(e, Proceed(result), (workflow_id :> e) @@ running_workflows)
    /\ UNCHANGED <<procVars, indexVars, request, urgVars, workflows, registered,
                   serverVars>>

\* an attempt of the step the coroutine e awaits has ended
step_attempt(e, outcome) ==
    /\ executions[e].pc = "awaiting"
    /\ Settle(e, AfterAttempt(executions[e], outcome), running_workflows)
    /\ UNCHANGED <<procVars, indexVars, request, urgVars, workflows, registered,
                   serverVars>>

NextWorkflow ==
    \/ \E workflow_id \in WorkflowIds, steps \in StepLists :
          register_workflow(workflow_id, steps)
    \/ \E e \in Executors, workflow_id \in WorkflowIds : execute_workflow(e, workflow_id)
    \/ \E e \in Executors, outcome \in Outcomes : step_attempt(e, outcome)

SpecWorkflow == InitWorkflow /\ [][NextWorkflow]_vars

\* ----------------------------------------------- MCP server specification
\* contract texts of one company
ServerTexts ==
    {Text("C-1", DateText("%B %d, %Y", 5), <<"Acme">>, <<>>,
          <<Line("Address", "123 Main St")>>, "a@acme.com", "555-0100"),
     Text("C-1", DateText("%B %d, %Y", 10), <<"Acme">>, <<>>,
          <<Line("Address", "456 Main St")>>, "b@acme.com", "555-0100")}

InitServer == InitAgent(ServerTexts)

\* the readings of datetime.now() a handler can take: only
\* _find_expiring_contracts reads the clock
HandlerReadings(call) ==
    IF call.tool_name = "find_expiring_contracts" THEN LaterReadings(clock) ELSE {clock}

\* the handler of a call has run: its response and its effect
Respond(call, now1) ==
    LET done == Dispatch(call, clock, now1)
    IN  /\ last' = Answered(call, call.tool_name \in Tools, clm_system', done.response)
        /\ expiration_alert_days' = done.expiration_alert_days
        /\ clock' = now1

\* call_tool: initialize_system constructs the system and awaits the
\* executor when self.clm_system is None, and returns True otherwise
call_tool(call, now1) ==
    /\ now1 \in HandlerReadings(call)
    /\ IF ~clm_system.constructed
       THEN /\ clm_system' = NewSystem
            /\ pending' = call
            /\ UNCHANGED <<last, expiration_alert_days, clock>>
       ELSE /\ UNCHANGED <<clm_system, pending>>
            /\ Respond(call, now1)
    /\ UNCHANGED <<fs, document_registry, vector_db, indexVars, request, urgVars,
                   engineVars>>

\* CLMAutomationSystem.initialize in the executor thread: the documents
\* were processed and the daily agent is constructed
initialize_components ==
    /\ pending # NoPending
    /\ ~clm_system.daily_agent
    /\ document_registry # <<>>
    /\ clm_system' = [clm_system EXCEPT !.daily_agent = TRUE]
    /\ UNCHANGED <<procVars, indexVars, request, last, urgVars, engineVars,
                   expiration_alert_days, pending>>

\* initialize has returned: True after the last component, False when
\* process_all_documents failed or a component raised
initialize_returns(ok, now1) ==
    /\ pending # NoPending
    /\ now1 \in (IF ok THEN HandlerReadings(pending) ELSE {clock})
    /\ pending' = NoPending
    /\ IF ok
       THEN /\ clm_system.daily_agent
            /\ clm_system' = [clm_system EXCEPT !.initialized = TRUE]
            /\ Respond(pending, now1)
       ELSE /\ last' = Answered(pending, FALSE, clm_system, FailedToInitialize)
            /\ UNCHANGED <<clm_system, expiration_alert_days, clock>>
    /\ UNCHANGED <<fs, document_registry, vector_db, indexVars, request, urgVars,
                   engineVars>>

NextServer ==
    \/ \E call \in ToolCalls, now1 \in 0..TicksPerDay : call_tool(call, now1)
    \/ initialize_components
    \/ \E ok \in BOOLEAN, now1 \in 0..TicksPerDay : initialize_returns(ok, now1)

SpecServer == InitServer /\ [][NextServer]_vars

\* ------------------------------------------------------------ properties
IndexedIds == {document_metadata[i].doc_id : i \in 1..Len(document_metadata)}

RegistryIds == RegistryIdsOf(document_registry)

\* position of an indexed document in the index
Pos(id) == CHOOSE i \in 1..Len(document_metadata) : document_metadata[i].doc_id = id

ReturnedIds(r) == {r[a].document_id : a \in 1..Len(r)}

ReadOps == {"find_similar_documents", "search_by_content",
            "find_duplicate_documents", "cluster_documents"}

\* C1: the groups returned by find_duplicate_documents are pairwise
\* disjoint: no document id occurs in two groups, nor twice in one group.
C1_GroupsDisjoint ==
    last.op = "find_duplicate_documents" =>
        \A g1, g2 \in 1..Len(last.result) :
            \A a \in 1..Len(last.result[g1]), b \in 1..Len(last.result[g2]) :
                last.result[g1][a].document_id = last.result[g2][b].document_id
                    => (g1 = g2 /\ a = b)

\* C2: when build_similarity_index returns False the index state is either
\* exactly what it was before the call or entirely empty.
C2_BuildAllOrNothing ==
    [][(last'.op = "build_similarity_index" /\ last'.result = FALSE) =>
          \/ UNCHANGED indexVars
          \/ (document_vectors' = NoVectors /\ document_texts' = <<>> /\ document_metadata' = <<>>)]_vars

\* C3: on a built index of n >= 1 documents cluster_documents(k) returns a
\* partition: every indexed document is in exactly one cluster and the
\* cluster ids are in 0 .. min(k, n) - 1.
C3_ClusterPartition ==
    (last.op = "cluster_documents" /\ last.built /\ Len(document_metadata) >= 1) =>
        LET r == last.result
            k == last.args[1]
            n == Len(document_metadata)
            kk == IF k < n THEN k ELSE n
        IN  /\ DOMAIN r \subseteq 0..(kk - 1)
            /\ \A i \in 1..n :
                 Cardinality({c \in DOMAIN r :
                     \E m \in 1..Len(r[c]) : r[c][m].document_id = document_metadata[i].doc_id}) = 1

\* C4: on a built index of exactly one document get_similarity_statistics
\* returns a statistics record with total_documents = 1 and the three
\* pair counts 0, not an error record.
C4_SingleDocumentStatistics ==
    (last.op = "get_similarity_statistics" /\ last.built /\ Len(document_metadata) = 1) =>
        /\ "error" \notin DOMAIN last.result
        /\ last.result.total_documents = 1
        /\ last.result.high_similarity_count = 0
        /\ last.result.medium_similarity_count = 0
        /\ last.result.low_similarity_count = 0

\* C5: the result of find_similar_documents(d, ...) has no entry whose
\* document_id is d.
C5_SelfExcluded ==
    last.op = "find_similar_documents" =>
        \A a \in 1..Len(last.result) : last.result[a].document_id # last.args[1]

\* C5 witness: a query for an indexed document that returned something at
\* threshold 0, where the document's own row would qualify.
C5_Witness ==
    /\ last.op = "find_similar_documents"
    /\ last.args[1] \in IndexedIds
    /\ last.args[3] = 0
    /\ Len(last.result) >= 1

C7_UnknownIdEmpty ==
    [][(last'.op = "find_similar_documents" /\ last'.args[1] \notin IndexedIds') =>
          /\ last'.result = <<>>
          /\ (document_vectors # NoVectors => UNCHANGED indexVars)]_vars

\* C7 witness: an unknown id queried at threshold 0 on a built index that
\* holds documents.
C7_Witness ==
    /\ last.op = "find_similar_documents"
    /\ last.built
    /\ last.args[1] \notin IndexedIds
    /\ last.args[2] # 0
    /\ last.args[3] = 0
    /\ Len(document_metadata) >= 2

\* the registry holds a text with vocabulary, so fit_transform succeeds
RegistryHasVocabulary ==
    \E i \in 1..Len(document_registry) :
        FeaturesOf(clean_text(document_registry[i].content)) # {}

\* C8 as stated: a read operation invoked while the index has never been
\* built returns an empty result, whatever the registry contains.
C8_UnbuiltReadEmpty ==
    (last.op \in ReadOps /\ ~last.built) => last.result = <<>>

\* C8 amended: a read operation invoked on an unbuilt index builds it
\* first; when that build fails (empty registry, or no text with
\* vocabulary) the result is empty and the index stays unbuilt; when it
\* succeeds the index covers the registry.
C8_UnbuiltReadBuilds ==
    (last.op \in ReadOps /\ ~last.built) =>
        IF RegistryHasVocabulary
        THEN /\ document_vectors # NoVectors
             /\ IndexedIds = RegistryIds
        ELSE /\ last.result = <<>>
             /\ document_vectors = NoVectors

\* C8 witness: a read on an unbuilt index over a registry that holds only
\* texts without vocabulary, so the build it triggers fails.
C8_Witness ==
    /\ last.op \in ReadOps
    /\ ~last.built
    /\ Len(document_registry) >= 2
    /\ ~RegistryHasVocabulary
    /\ last.op \in {"find_similar_documents", "search_by_content"} => last.args[3] = 0

\* C9: after process_all_documents the registry holds exactly the
\* documents that this invocation loaded.
C9_RegistryIsLastLoad ==
    last.op = "process_all_documents" =>
        RegistryIds = {generate_doc_id(p) : p \in {q \in Paths : fs[q] # NoFile /\ Loadable(q)}}

\* C10: _get_urgency_level gives exactly one tier per integer: d <= 7
\* CRITICAL, 8..14 HIGH, 15..30 MEDIUM, d > 30 LOW.
C10_UrgencyTiers ==
    urgency # None =>
        /\ urgency \in {"CRITICAL", "HIGH", "MEDIUM", "LOW"}
        /\ urgency = "CRITICAL" <=> days <= 7
        /\ urgency = "HIGH" <=> days \in 8..14
        /\ urgency = "MEDIUM" <=> days \in 15..30
        /\ urgency = "LOW" <=> days > 30

\* C10 witness: the boundary value 30 has been classified MEDIUM.
C10_Witness == days = 30 /\ urgency = "MEDIUM"

\* position of a document in the registry
RegPos(id) == CHOOSE i \in 1..Len(document_registry) : document_registry[i].id = id

\* C11: every record of _find_expiring_contracts has days_until_expiry <=
\* the alert window, the list is in ascending days_until_expiry order and
\* records with equal days_until_expiry are in registry order.
C11_ExpiringSorted ==
    last.op = "find_expiring_contracts" =>
        LET r == last.result
        IN  /\ \A a \in 1..Len(r) : r[a].days_until_expiry <= EXPIRATION_ALERT_DAYS
            /\ \A a, b \in 1..Len(r) : a < b =>
                  /\ r[a].days_until_expiry <= r[b].days_until_expiry
                  /\ (r[a].days_until_expiry = r[b].days_until_expiry
                        => RegPos(r[a].document_id) < RegPos(r[b].document_id))

\* C11 witness: two records, the one at the window's edge after a record
\* of a document that comes later in the registry.
C11_Witness ==
    /\ last.op = "find_expiring_contracts"
    /\ Len(last.result) = 2
    /\ last.result[2].days_until_expiry >= EXPIRATION_ALERT_DAYS - 1
    /\ RegPos(last.result[1].document_id) > RegPos(last.result[2].document_id)

\* the calendar date of a clock reading
Today(now) == now \div TicksPerDay

\* C12: a document whose expiration date parses to the date 5 days after
\* the current date is returned with days_until_expiry = 5 and urgency
\* CRITICAL, whatever the time of day.
C12_FiveDaysCritical ==
    last.op = "find_expiring_contracts" =>
        \A i \in 1..Len(document_registry) :
            extract_expiration_date(document_registry[i])
                    = (Today(last.args[1]) + 5) * TicksPerDay
                => \E a \in 1..Len(last.result) :
                      /\ last.result[a].document_id = document_registry[i].id
                      /\ last.result[a].days_until_expiry = 5
                      /\ last.result[a].urgency = "CRITICAL"

\* the conflict records of one type in a list of conflicts
OfType(conflicts, type) == SelectSeq(conflicts, LAMBDA c : c.type = type)

AllCompanies ==
    UNION {Range(document_registry[i].metadata.companies) : i \in 1..Len(document_registry)}

\* the documents that name a company
DocsOf(company) ==
    {i \in 1..Len(document_registry) :
        company \in Range(document_registry[i].metadata.companies)}

\* the (document, address) observations of a company
AddressesOf(company) ==
    UNION {{<<document_registry[i].id, l.address>> :
               l \in Range(document_registry[i].content.address_lines)} :
           i \in DocsOf(company)}

Observed(list, field) == {<<list[k].document_id, list[k][field]>> : k \in 1..Len(list)}

\* C13: _detect_address_conflicts emits exactly one HIGH record for each
\* company with more than one distinct address across the documents,
\* listing every (document, address) observation of it, and none for a
\* company with at most one distinct address.
C13_AddressConflicts ==
    last.op = "detect_conflicts" =>
        LET recs == OfType(last.result, "address_conflict")
        IN  /\ \A k \in 1..Len(recs) :
                  recs[k].severity = "HIGH" /\ recs[k].company \in AllCompanies
            /\ \A c \in AllCompanies :
                  LET mine == SelectSeq(recs, LAMBDA r : r.company = c)
                  IN  IF Cardinality({o[2] : o \in AddressesOf(c)}) > 1
                      THEN /\ Len(mine) = 1
                           /\ Observed(mine[1].conflicting_addresses, "address")
                                 = AddressesOf(c)
                      ELSE Len(mine) = 0

\* C13 witness: two documents of one company with two addresses gave one
\* record that names both documents.
C13_Witness ==
    /\ last.op = "detect_conflicts"
    /\ Len(document_registry) = 2
    /\ Len(OfType(last.result, "address_conflict")) = 1
    /\ LET rec == OfType(last.result, "address_conflict")[1]
       IN  /\ rec.company = "Acme"
           /\ {o[1] : o \in Observed(rec.conflicting_addresses, "address")}
                 = {document_registry[1].id, document_registry[2].id}
           /\ {o[2] : o \in Observed(rec.conflicting_addresses, "address")}
                 = {"123 Main St", "456 Main St"}

\* the documents that carry a contract id
WithContractId ==
    {i \in 1..Len(document_registry) :
        document_registry[i].metadata.contract_id \notin {None, ""}}

AllContractIds == {document_registry[i].metadata.contract_id : i \in WithContractId}

\* the (document, date) observations of a contract id
DatesOf(contract_id) ==
    {<<document_registry[i].id, extract_expiration_date(document_registry[i])>> :
        i \in {j \in WithContractId :
                  /\ document_registry[j].metadata.contract_id = contract_id
                  /\ extract_expiration_date(document_registry[j]) # NoDate}}

\* C14: _detect_date_conflicts emits exactly one HIGH record for each
\* contract id with more than one distinct parsed expiration date, listing
\* every (document, date) observation; a document without a contract id
\* is in no record, and a contract id with one distinct date has no record.
C14_DateConflicts ==
    last.op = "detect_conflicts" =>
        LET recs == OfType(last.result, "date_conflict")
        IN  /\ \A k \in 1..Len(recs) :
                  /\ recs[k].severity = "HIGH"
                  /\ recs[k].contract_id \in AllContractIds
                  /\ \A o \in Observed(recs[k].conflicting_dates, "date") :
                        RegPos(o[1]) \in WithContractId
            /\ \A c \in AllContractIds :
                  LET mine == SelectSeq(recs, LAMBDA r : r.contract_id = c)
                  IN  IF Cardinality({o[2] : o \in DatesOf(c)}) > 1
                      THEN /\ Len(mine) = 1
                           /\ Observed(mine[1].conflicting_dates, "date") = DatesOf(c)
                      ELSE Len(mine) = 0

\* C14 witness: two documents of one contract id with two dates gave one
\* record that names both documents.
C14_Witness ==
    /\ last.op = "detect_conflicts"
    /\ Len(document_registry) = 2
    /\ Len(OfType(last.result, "date_conflict")) = 1
    /\ Cardinality(Observed(OfType(last.result, "date_conflict")[1].conflicting_dates,
                            "date")) = 2

\* the values of a contact field observed for a company
ContactValues(company, field) ==
    {document_registry[i].content[field] : i \in DocsOf(company)} \ {None}

\* C15: _detect_company_conflicts emits exactly one MEDIUM contact record
\* for a company if and only if more than one distinct email or more than
\* one distinct phone was observed for it.
C15_ContactConflicts ==
    last.op = "detect_conflicts" =>
        LET recs == OfType(last.result, "contact_conflict")
        IN  /\ \A k \in 1..Len(recs) :
                  recs[k].severity = "MEDIUM" /\ recs[k].company \in AllCompanies
            /\ \A c \in AllCompanies :
                  Len(SelectSeq(recs, LAMBDA r : r.company = c))
                    = IF \/ Cardinality(ContactValues(c, "email")) > 1
                         \/ Cardinality(ContactValues(c, "phone")) > 1
                      THEN 1 ELSE 0

\* C15 witness: a contact record for a company whose phones differ while
\* its email is the same in both documents.
C15_Witness ==
    /\ last.op = "detect_conflicts"
    /\ \E k \in 1..Len(last.result) :
          /\ last.result[k].type = "contact_conflict"
          /\ Cardinality(ContactValues(last.result[k].company, "phone")) > 1
          /\ Cardinality(ContactValues(last.result[k].company, "email")) <= 1

RECURSIVE Orderings(_)
\* the orders in which a set of positions can be listed
Orderings(S) ==
    IF S = {} THEN {<<>>}
    ELSE UNION {{<<x>> \o rest : rest \in Orderings(S \ {x})} : x \in S}

\* the observations of a conflict record, whatever its type
ObservationsOf(c) ==
    CASE c.type = "address_conflict" -> Range(c.conflicting_addresses)
      [] c.type = "date_conflict" -> Range(c.conflicting_dates)
      [] c.type = "contact_conflict" -> Range(c.conflicting_info)

EntityOf(c) == IF c.type = "date_conflict" THEN c.contract_id ELSE c.company

\* a list of conflict records as a set: entity, type, severity, observations
ConflictSet(conflicts) ==
    {<<conflicts[k].type, EntityOf(conflicts[k]), conflicts[k].severity,
       ObservationsOf(conflicts[k])>> : k \in 1..Len(conflicts)}

\* C16: running _detect_conflicts again on the unchanged registry, or on
\* the same documents in any other registry order, yields the same set of
\* conflict records (entities, types, severities, observation sets).
C16_ConflictsOrderIndependent ==
    last.op = "detect_conflicts" =>
        /\ detect_conflicts(document_registry) = last.result
        /\ \A order \in Orderings(1..Len(document_registry)) :
              ConflictSet(detect_conflicts(
                  [k \in 1..Len(order) |-> document_registry[order[k]]]))
                = ConflictSet(last.result)

\* C16 witness: two documents gave conflict records of more than one type.
C16_Witness ==
    /\ last.op = "detect_conflicts"
    /\ Len(document_registry) = 2
    /\ Cardinality({last.result[k].type : k \in 1..Len(last.result)}) >= 2

Criticals(report) ==
    CountUrgency(report.expiring_contracts, "CRITICAL")

\* C17: in every daily report requires_immediate_attention is true exactly
\* when some expiring contract is CRITICAL or there is a conflict record.
C17_ImmediateAttention ==
    last.op = "run_daily_analysis" =>
        (last.result.summary.requires_immediate_attention
            <=> (Criticals(last.result) > 0 \/ Len(last.result.conflicts) > 0))

\* C17 witness: a report without CRITICAL contract that needs attention
\* for its conflicts.
C17_Witness ==
    /\ last.op = "run_daily_analysis"
    /\ Criticals(last.result) = 0
    /\ Len(last.result.conflicts) > 0
    /\ last.result.summary.requires_immediate_attention

\* the four conditions of the recommendations, in their order
Conditions(report) ==
    <<Criticals(report) > 0,
      CountUrgency(report.expiring_contracts, "HIGH") > 0,
      CountType(report.conflicts, "address_conflict") > 0,
      CountType(report.conflicts, "date_conflict") > 0>>

Templates ==
    <<"URGENT: contracts expire within 7 days", "Review contracts expiring within 14 days",
      "Resolve address conflicts", "Clarify date conflicts">>

\* C18: one recommendation for each of the four conditions that holds, in
\* that order; the single "no immediate issues" recommendation if and only
\* if none holds; the list is never empty.
C18_Recommendations ==
    last.op = "run_daily_analysis" =>
        LET recs == last.result.recommendations
            holds == Conditions(last.result)
            expected == SelectSeq(Templates,
                            LAMBDA t : \E k \in 1..4 : Templates[k] = t /\ holds[k])
        IN  /\ recs # <<>>
            /\ IF \E k \in 1..4 : holds[k]
               THEN [k \in 1..Len(recs) |-> recs[k].template] = expected
               ELSE /\ Len(recs) = 1
                    /\ recs[1].template = "No immediate issues detected"

\* C18 witness: a report in which all four conditions hold.
C18_Witness ==
    /\ last.op = "run_daily_analysis"
    /\ \A k \in 1..4 : Conditions(last.result)[k]
    /\ Len(last.result.recommendations) = 4

BuiltReadOps == {"find_similar_documents", "search_by_content",
                 "find_duplicate_documents", "get_similarity_statistics"}

\* what a recorded call returns when it is issued on the index as it is now
SameCall(call) ==
    CASE call.op = "find_similar_documents" ->
             FindSimilarResult(CurrentIndex, call.args[1], call.args[2], call.args[3])
      [] call.op = "search_by_content" ->
             SearchResult(CurrentIndex, call.args[1], call.args[2], call.args[3])
      [] call.op = "find_duplicate_documents" ->
             DuplicatesResult(CurrentIndex, call.args[1])
      [] call.op = "get_similarity_statistics" -> StatisticsResult
      [] OTHER -> call.result

\* C19: a read operation against a built index leaves document_vectors,
\* document_texts, document_metadata and the fitted vocabulary unchanged,
\* and its result is the one the same query returns on that unchanged
\* index, so the same query issued twice returns identical results.
C19_ReadsLeaveIndex ==
    [][(last'.op \in BuiltReadOps /\ document_vectors # NoVectors) =>
          /\ UNCHANGED indexVars
          /\ last'.result = SameCall(last')]_vars

\* C19 witness: a search on a built index that returned documents.
C19_Witness ==
    /\ last.op = "search_by_content"
    /\ last.built
    /\ Len(last.result) >= 1
    /\ Len(document_metadata) >= 2

DownstreamOps == ReadOps \cup {"get_similarity_statistics"}

IndexEmpty ==
    /\ document_vectors = NoVectors
    /\ document_texts = <<>>
    /\ document_metadata = <<>>

\* C20: with an empty registry build_similarity_index returns False and
\* leaves the index empty, and each downstream similarity operation
\* (find_similar_documents, search_by_content, find_duplicate_documents,
\* cluster_documents, get_similarity_statistics) returns an empty result.
C20_EmptyRegistryEmptyResults ==
    document_registry = <<>> =>
        /\ IndexEmpty
        /\ last.op = "build_similarity_index" => last.result = FALSE
        /\ last.op \in DownstreamOps => DOMAIN last.result = {}

\* C21: every conflict record of _detect_conflicts lists observations of
\* at least two distinct source documents.
C21_TwoSourceDocuments ==
    last.op = "detect_conflicts" =>
        \A k \in 1..Len(last.result) :
            Cardinality({o.document_id : o \in ObservationsOf(last.result[k])}) >= 2

\* the group keys in sorted order
SortedKeys == <<"Acme", "Beta", "C-1", "C-2">>

KeyRank(key) == CHOOSE r \in 1..Len(SortedKeys) : SortedKeys[r] = key

ConflictTypes == {"address_conflict", "date_conflict", "contact_conflict"}

\* the type and group key of each record of a conflict list, in its order
KeyList(conflicts) ==
    [k \in 1..Len(conflicts) |-> <<conflicts[k].type, EntityOf(conflicts[k])>>]

\* C22: within each conflict pass the records are in sorted order of their
\* group key, and the records come in the same order for every order of
\* the documents in the registry.
C22_ConflictsSortedByKey ==
    last.op = "detect_conflicts" =>
        /\ \A type \in ConflictTypes :
              LET recs == OfType(last.result, type)
              IN  \A a, b \in 1..Len(recs) : a < b =>
                      KeyRank(EntityOf(recs[a])) < KeyRank(EntityOf(recs[b]))
        /\ \A order \in Orderings(1..Len(document_registry)) :
              KeyList(detect_conflicts(
                  [k \in 1..Len(order) |-> document_registry[order[k]]]))
                = KeyList(last.result)

AcceptedFormats == {"%B %d, %Y", "%Y-%m-%d"}

\* the content matches one of the two formats accepts
AcceptedMatches(doc) ==
    {m \in 1..Len(doc.content.date_matches) :
        doc.content.date_matches[m].format \in AcceptedFormats}

\* the date the content patterns give: the first accepted match
ContentDate(doc) ==
    IF AcceptedMatches(doc) = {} THEN NoDate
    ELSE LET first == CHOOSE m \in AcceptedMatches(doc) :
                          \A n \in AcceptedMatches(doc) : m <= n
         IN  doc.content.date_matches[first].day * TicksPerDay

\* C23 as stated: a metadata expiration date in an accepted format is
\* returned whatever the content holds, the content patterns are used
\* only when the metadata has no expiration date, and a metadata value in
\* neither format yields None.
C23_MetadataFirst ==
    last.op = "_extract_expiration_date" =>
        LET doc == document_registry[last.args[1]]
            expiration_str == doc.metadata.expiration_date
        IN  IF expiration_str = NoDateText THEN last.result = ContentDate(doc)
            ELSE IF expiration_str.format \in AcceptedFormats
                 THEN last.result = expiration_str.day * TicksPerDay
                 ELSE last.result = NoDate

\* C23 amended: a metadata expiration date in an accepted format is
\* returned whatever the content holds; when the metadata has no
\* expiration date or its value is in neither format, the first content
\* match in an accepted format is returned, and None when there is none.
C23_MetadataFirstElseContent ==
    last.op = "_extract_expiration_date" =>
        LET doc == document_registry[last.args[1]]
            expiration_str == doc.metadata.expiration_date
        IN  IF expiration_str # NoDateText /\ expiration_str.format \in AcceptedFormats
            THEN last.result = expiration_str.day * TicksPerDay
            ELSE last.result = ContentDate(doc)

\* C23 witness: the metadata date parsed and was returned although the
\* content names another date.
C23_Witness ==
    /\ last.op = "_extract_expiration_date"
    /\ LET doc == document_registry[last.args[1]]
       IN  /\ doc.metadata.expiration_date.format = "%Y-%m-%d"
           /\ ContentDate(doc) \notin {NoDate, last.result}
           /\ last.result = doc.metadata.expiration_date.day * TicksPerDay

\* a recommendation that asks for an action
Actionable(r) == r.template \in Range(Templates)

\* C29: in every daily report, when requires_immediate_attention is true
\* the recommendations hold an actionable recommendation and not the
\* "No immediate issues detected" message.
C29_AttentionHasRecommendation ==
    last.op = "run_daily_analysis" =>
        (last.result.summary.requires_immediate_attention =>
            LET recs == last.result.recommendations
            IN  /\ \E k \in 1..Len(recs) : Actionable(recs[k])
                /\ \A k \in 1..Len(recs) :
                      recs[k].template # "No immediate issues detected")

\* C24: a workflow id is a key of workflows exactly when register_workflow
\* has been called for it, and execute_workflow with an id that was never
\* registered returns status FAILED with a "not found" error, starts no
\* step and leaves running_workflows unchanged.
C24_UnregisteredNotFound ==
    [][/\ DOMAIN workflows' = registered'
       /\ \A e \in Executors, workflow_id \in WorkflowIds :
             (execute_workflow(e, workflow_id) /\ workflow_id \notin registered) =>
                 /\ last'.result.status = "failed"
                 /\ last'.result.error.kind = "not found"
                 /\ last'.result.steps_completed = 0
                 /\ last'.args[4] = <<>>
                 /\ UNCHANGED <<running_workflows, executions>>]_vars

\* C24 witness: one id is registered and execute_workflow was called with
\* the other, which came back not found.
C24_Witness ==
    /\ registered # {}
    /\ last.op = "execute_workflow"
    /\ last.args[2] \notin registered
    /\ last.result.error.kind = "not found"

\* C25: call_tool never dispatches a tool handler against a CLM system
\* that is not initialized: a call sees an initialized system or returns
\* the "Failed to initialize CLM system" error.
C25_DispatchOnlyInitialized ==
    last.op = "call_tool" =>
        IF last.dispatched THEN last.system.initialized
        ELSE last.system.initialized \/ last.result.error = FailedToInitialize.error

\* the conflict type a value of the tool's schema stands for
KindOf(conflict_type) ==
    CASE conflict_type = "address" -> "address_conflict"
      [] conflict_type = "date" -> "date_conflict"
      [] conflict_type = "contact" -> "contact_conflict"

\* C26: on an initialized system the detect_conflicts tool called with
\* conflict_type "address",
\* "date" or "contact" returns exactly the conflict records of that kind
\* the detector found, with count their number; with "all" it returns
\* every record.
C26_ConflictTypeFilter ==
    (/\ last.op = "call_tool"
     /\ last.args[1] = "detect_conflicts"
     /\ last.dispatched
     /\ last.system.initialized
     /\ Get(last.args[2], "conflict_type", "all") \in {"all", "address", "date", "contact"})
    => LET conflict_type == Get(last.args[2], "conflict_type", "all")
           found == detect_conflicts(document_registry)
       IN  /\ last.result.count = Len(last.result.conflicts)
           /\ last.result.conflicts =
                 IF conflict_type = "all" THEN found
                 ELSE OfType(found, KindOf(conflict_type))

\* the step results of a finished execution, by position in the step list
StepResult(call, k) == call.result.results[call.args[3][k].name]

\* C27: execute_workflow starts the steps in list order without skipping
\* one; a step starts only if every name in its depends_on is an earlier
\* step that succeeded; no step starts after a failed step; the status is
\* COMPLETED if and only if every step of the list succeeded, and FAILED
\* with the error recorded otherwise.
C27_StepsInOrder ==
    (last.op = "execute_workflow" /\ last.result.error.kind # "not found") =>
        LET steps == last.args[3]
            started == last.args[4]
            r == last.result
        IN  /\ \A k \in 1..Len(started) : started[k] = k
            /\ \A k \in 1..Len(started) :
                  \A d \in 1..Len(steps[k].depends_on) :
                      \E j \in 1..(k - 1) :
                          /\ steps[j].name = steps[k].depends_on[d]
                          /\ StepResult(last, j) = "success"
            /\ \A k \in 1..(Len(started) - 1) : StepResult(last, k) = "success"
            /\ r.status = "completed"
                  <=> /\ Len(started) = Len(steps)
                      /\ \A k \in 1..Len(steps) : StepResult(last, k) = "success"
            /\ r.status # "completed" => (r.status = "failed" /\ r.error # NoError)

\* C27 witness: the first step succeeded, the second was started for its
\* met dependency and failed, and the workflow ended FAILED.
C27_Witness ==
    /\ last.op = "execute_workflow"
    /\ last.result.status = "failed"
    /\ last.result.error.kind = "step"
    /\ last.args[4] = <<1, 2>>
    /\ last.args[3][2].depends_on # <<>>

\* the executions of a workflow id that are in progress
InProgress(workflow_id) ==
    {e \in Executors : executions[e].pc = "awaiting"
                          /\ executions[e].workflow_id = workflow_id}

\* C28: while an execution of workflow w is in progress w is a key of
\* running_workflows and get_workflow_status reports it as running, and
\* once no execution of w is in progress w is absent.
C28_RunningTracked ==
    \A w \in WorkflowIds :
        /\ InProgress(w) # {} <=> w \in DOMAIN running_workflows
        /\ InProgress(w) # {} <=> WorkflowStatusOf(w) = "running"

\* C30: a call of the find_expiring_contracts tool through call_tool on
\* an initialized system, whether the handler returns a result or fails,
\* leaves expiration_alert_days as it was before the call.
C30_AlertDaysRestored ==
    [][clm_system.initialized => expiration_alert_days' = expiration_alert_days]_vars

====
